---- MODULE Spec2Model ----
(***************************************************************************)
(* LingoSync: the debounced streaming-translation pipeline and the bounded *)
(* history cache of the App component (src/unnamed/part_000, lines 146 to  *)
(* 495), modelled as a state machine.  One action per event handler,       *)
(* timer callback or stream event; every action includes the re-render and *)
(* the effects the handler's state updates trigger.                        *)
(***************************************************************************)
EXTENDS Integers, Sequences, FiniteSets, TLC

\* ---------------------------------------------------------------- bounds
MaxCalls   == 2      \* translation calls started in one run
MaxTimers  == 2      \* timers scheduled in one run
MaxChunks  == 1      \* non-empty fragments delivered to one call
MaxTime    == 1600   \* last instant of the clock
MaxHistTime == 800   \* last instant of the clock when the cache runs alone
MaxRecords == 5      \* history entries created in one run of the cache
MaxStreamCalls  == 1 \* calls started in one run of a single stream
MaxStreamChunks == 3 \* non-empty fragments of the single stream

\* ------------------------------------------------------ program constants
DEBOUNCE_MS   == 800
HISTORY_LIMIT == 10

\* The clock advances by half a quiet period at a time.
TickStep == DEBOUNCE_MS \div 2

\* ------------------------------------------------------------------ text
\* A text is a sequence of characters.
Whitespace == {" "}

RECURSIVE TrimStart(_)
TrimStart(s) ==
  IF s = <<>> THEN s
  ELSE IF Head(s) \in Whitespace THEN TrimStart(Tail(s)) ELSE s

RECURSIVE TrimEnd(_)
TrimEnd(s) ==
  IF s = <<>> THEN s
  ELSE IF s[Len(s)] \in Whitespace THEN TrimEnd(SubSeq(s, 1, Len(s) - 1)) ELSE s

\* String.prototype.trim
Trim(s) == TrimEnd(TrimStart(s))

\* Mutant of Blank: the text is tested without being trimmed.
BlankUntrimmed(s) == s = <<>>

\* !s.trim()
Blank(s) == Trim(s) = <<>>

\* Array.prototype.slice(0, n)
Slice(s, n) == SubSeq(s, 1, IF Len(s) < n THEN Len(s) ELSE n)

VARIABLES
  inputText, translatedText, sourceLang, targetLang, isTranslating,
  history, error,
  abortControllerRef,  \* id of the last timer scheduled, 0 for null
  timers,              \* the browser's pending timeouts
  nextTimerId,         \* the id window.setTimeout returns next
  calls,               \* the performTranslation calls not settled yet
  started,             \* number of performTranslation calls started
  localStorage,        \* the value stored under 'translation_history'
  now,                 \* Date.now()
  nextUuid,            \* the identifier crypto.randomUUID() returns next
  lastOp,              \* the handler that ran last, with its arguments
  callsSinceChange,    \* calls started since the debounce effect last ran
  changedAt,           \* the instant the debounce effect last ran
  lastCall             \* arguments of the call started last

vars == <<inputText, translatedText, sourceLang, targetLang, isTranslating,
          history, error, abortControllerRef, timers, nextTimerId, calls,
          started, localStorage, now, nextUuid, lastOp, callsSinceChange,
          changedAt, lastCall>>

orchestratorVars == <<inputText, translatedText, sourceLang, targetLang,
                      isTranslating, error, abortControllerRef, timers,
                      nextTimerId, calls, started, callsSinceChange,
                      changedAt, lastCall>>

historyVars == <<history, localStorage, nextUuid>>

\* --------------------------------------------------------- history cache
Languages       == {"auto", "en"}     \* codes of SUPPORTED_LANGUAGES
TargetLanguages == {"es"}             \* codes of TARGET_LANGUAGES

\* The value of a localStorage key: absent (getItem returns null), or a text
\* that is either the JSON of a list (rows holds its fields in order) or not
\* parsable at all.
NoItem  == [present |-> FALSE, wellFormed |-> FALSE, rows |-> <<>>]
Corrupt == [present |-> TRUE,  wellFormed |-> FALSE, rows |-> <<>>]

\* JSON.stringify of a HistoryItem[]
Stringify(h) ==
  [present |-> TRUE, wellFormed |-> TRUE,
   rows |-> [i \in 1..Len(h) |->
              <<h[i].id, h[i].timestamp, h[i].sourceLanguage,
                h[i].targetLanguage, h[i].translatedText>>]]

\* Mutant of Parse: the entries come out in reverse order.
ParseReversed(v) ==
  [i \in 1..Len(v.rows) |->
    [id |-> v.rows[Len(v.rows) + 1 - i][1],
     timestamp |-> v.rows[Len(v.rows) + 1 - i][2],
     sourceLanguage |-> v.rows[Len(v.rows) + 1 - i][3],
     targetLanguage |-> v.rows[Len(v.rows) + 1 - i][4],
     translatedText |-> v.rows[Len(v.rows) + 1 - i][5]]]

\* JSON.parse of a stored text that is well formed
Parse(v) ==
  [i \in 1..Len(v.rows) |->
    [id |-> v.rows[i][1], timestamp |-> v.rows[i][2],
     sourceLanguage |-> v.rows[i][3], targetLanguage |-> v.rows[i][4],
     translatedText |-> v.rows[i][5]]]

\* The history-load effect: what setHistory receives on mount, the initial
\* [] being kept when nothing is stored or the stored text does not parse.
LoadHistory(v) ==
  IF v.present /\ v.wellFormed THEN Parse(v) ELSE <<>>

\* The item saveToHistory constructs.
NewItem(translated, sLang, tLang) ==
  [id |-> nextUuid, timestamp |-> now, sourceLanguage |-> sLang,
   targetLanguage |-> tLang, translatedText |-> translated]

\* Mutant of HistoryUpdater: the new list is not truncated.
HistoryUpdaterUntruncated(prev, translated, sLang, tLang) ==
  IF Len(prev) > 0 /\ prev[1].translatedText = translated
  THEN prev
  ELSE <<NewItem(translated, sLang, tLang)>> \o prev

\* Mutant of HistoryUpdater: the head is not compared with the new text.
HistoryUpdaterNoDedup(prev, translated, sLang, tLang) ==
  Slice(<<NewItem(translated, sLang, tLang)>> \o prev, HISTORY_LIMIT)

\* Mutant of HistoryUpdater: every entry is compared with the new text.
HistoryUpdaterFullDedup(prev, translated, sLang, tLang) ==
  IF \E i \in 1..Len(prev) : prev[i].translatedText = translated
  THEN prev
  ELSE Slice(<<NewItem(translated, sLang, tLang)>> \o prev, HISTORY_LIMIT)

\* The updater saveToHistory hands to setHistory: prev => next.
HistoryUpdater(prev, translated, sLang, tLang) ==
  IF Len(prev) > 0 /\ prev[1].translatedText = translated
  THEN prev
  ELSE Slice(<<NewItem(translated, sLang, tLang)>> \o prev, HISTORY_LIMIT)

\* Mutant of SaveToHistory: setItem is given the list before the update.
SaveToHistoryStoresPrev(text, translated, sLang, tLang) ==
  IF Blank(translated) \/ Blank(text)
  THEN UNCHANGED historyVars
  ELSE LET next == HistoryUpdater(history, translated, sLang, tLang) IN
       IF next = history
       THEN UNCHANGED historyVars
       ELSE /\ history' = next
            /\ localStorage' = Stringify(history)
            /\ nextUuid' = nextUuid + 1

\* saveToHistory: the guard, the updater, and the setItem the updater does
\* when it builds a new list.
SaveToHistory(text, translated, sLang, tLang) ==
  IF Blank(translated) \/ Blank(text)
  THEN UNCHANGED historyVars
  ELSE LET next == HistoryUpdater(history, translated, sLang, tLang) IN
       IF next = history
       THEN UNCHANGED historyVars
       ELSE /\ history' = next
            /\ localStorage' = Stringify(next)
            /\ nextUuid' = nextUuid + 1

\* A list a previous session stored: n entries, most recent first, with
\* identifiers and timestamps that precede this session's.
StoredList(n) ==
  [i \in 1..n |->
    [id |-> 0 - i, timestamp |-> 0 - i, sourceLanguage |-> "auto",
     targetLanguage |-> "es",
     translatedText |-> IF i = HISTORY_LIMIT THEN <<"c">>
                        ELSE IF i % 2 = 1 THEN <<"a">> ELSE <<"b">>]]

\* lastOp: the handler's name, the call it belongs to (0 for none), the
\* arguments of a record, and the number of timers pending when it ran.
NoOp == [op |-> "init", id |-> 0, text |-> <<>>, out |-> <<>>, pending |-> 0]
Op(name, id, text, out) ==
  [op |-> name, id |-> id, text |-> text, out |-> out,
   pending |-> Cardinality(timers)]

NoError == <<>>

InitWith(stored) ==
  /\ inputText = <<>>
  /\ translatedText = <<>>
  /\ sourceLang = "auto"
  /\ targetLang = "es"
  /\ isTranslating = FALSE
  /\ error = NoError
  /\ abortControllerRef = 0
  /\ timers = {}
  /\ nextTimerId = 1
  /\ calls = {}
  /\ started = 0
  /\ localStorage \in stored
  /\ history = LoadHistory(localStorage)
  /\ now = 0
  /\ nextUuid = 1
  /\ lastOp = NoOp
  /\ callsSinceChange = 0
  /\ changedAt = 0
  /\ lastCall = <<>>

Init == InitWith({Stringify(StoredList(1))})

\* ---------------------------------------------------------- orchestrator
\* Mutant of ClearTimeout: the pending timer is not cancelled.
ClearTimeoutForgotten(pending) == pending

\* window.clearTimeout(abortControllerRef.current), guarded by the ref
\* being set.
ClearTimeout(pending) ==
  IF abortControllerRef # 0
  THEN {t \in pending : t.id # abortControllerRef}
  ELSE pending

\* Mutant of DebounceEffect: the timer callback closes over the language pair
\* of the render before the change.
DebounceEffectStalePair(text, sLang, tLang, out, flag) ==
  LET cleared == ClearTimeout(ClearTimeout(timers)) IN
  /\ callsSinceChange' = 0
  /\ changedAt' = now
  /\ IF Blank(text)
     THEN /\ timers' = cleared
          /\ translatedText' = <<>>
          /\ isTranslating' = FALSE
          /\ UNCHANGED <<abortControllerRef, nextTimerId>>
     ELSE /\ timers' = cleared \cup
                 {[id |-> nextTimerId, text |-> text, sLang |-> sourceLang,
                   tLang |-> targetLang, due |-> now + DEBOUNCE_MS]}
          /\ abortControllerRef' = nextTimerId
          /\ nextTimerId' = nextTimerId + 1
          /\ translatedText' = out
          /\ isTranslating' = flag

\* The debounce effect, run after a render in which inputText, sourceLang or
\* targetLang changed: the previous run's cleanup, then the body.  text, sLang
\* and tLang are the rendered values the timer callback closes over; out and
\* flag are the rendered translatedText and isTranslating.
DebounceEffect(text, sLang, tLang, out, flag) ==
  LET cleared == ClearTimeout(ClearTimeout(timers)) IN
  /\ callsSinceChange' = 0
  /\ changedAt' = now
  /\ IF Blank(text)
     THEN /\ timers' = cleared
          /\ translatedText' = <<>>
          /\ isTranslating' = FALSE
          /\ UNCHANGED <<abortControllerRef, nextTimerId>>
     ELSE /\ timers' = cleared \cup
                 {[id |-> nextTimerId, text |-> text, sLang |-> sLang,
                   tLang |-> tLang, due |-> now + DEBOUNCE_MS]}
          /\ abortControllerRef' = nextTimerId
          /\ nextTimerId' = nextTimerId + 1
          /\ translatedText' = out
          /\ isTranslating' = flag

\* The render a handler's state updates cause: the debounce effect runs only
\* when one of its dependencies differs from the previous render.
Render(text, sLang, tLang, out) ==
  /\ inputText' = text
  /\ sourceLang' = sLang
  /\ targetLang' = tLang
  /\ IF <<text, sLang, tLang>> # <<inputText, sourceLang, targetLang>>
     THEN DebounceEffect(text, sLang, tLang, out, isTranslating)
     ELSE /\ translatedText' = out
          /\ UNCHANGED <<isTranslating, timers, abortControllerRef,
                         nextTimerId, callsSinceChange, changedAt>>

\* Can a handler that changes a dependency to a non-blank text still get a
\* timer id?
CanSchedule(text) == Blank(text) \/ nextTimerId <= MaxTimers

\* textarea onChange: setInputText(e.target.value)
SetInputText(text) ==
  /\ text # inputText
  /\ CanSchedule(text)
  /\ Render(text, sourceLang, targetLang, translatedText)
  /\ lastOp' = Op("setInputText", 0, <<>>, <<>>)
  /\ UNCHANGED <<error, calls, started, lastCall, now>>
  /\ UNCHANGED historyVars

\* source LanguageSelector onChange: setSourceLang
SetSourceLang(code) ==
  /\ code # sourceLang
  /\ CanSchedule(inputText)
  /\ Render(inputText, code, targetLang, translatedText)
  /\ lastOp' = Op("setSourceLang", 0, <<>>, <<>>)
  /\ UNCHANGED <<error, calls, started, lastCall, now>>
  /\ UNCHANGED historyVars

\* target LanguageSelector onChange: setTargetLang
SetTargetLang(code) ==
  /\ code # targetLang
  /\ CanSchedule(inputText)
  /\ Render(inputText, sourceLang, code, translatedText)
  /\ lastOp' = Op("setTargetLang", 0, <<>>, <<>>)
  /\ UNCHANGED <<error, calls, started, lastCall, now>>
  /\ UNCHANGED historyVars

\* Mutant of HandleSwapLanguages: the "auto" guard is missing.
HandleSwapUnguarded ==
  /\ CanSchedule(translatedText)
  /\ Render(translatedText, targetLang, sourceLang, inputText)
  /\ lastOp' = Op("swap", 0, <<>>, <<>>)
  /\ UNCHANGED <<error, calls, started, lastCall, now>>
  /\ UNCHANGED historyVars

\* handleSwapLanguages
HandleSwapLanguages ==
  /\ IF sourceLang = "auto"
     THEN UNCHANGED orchestratorVars
     ELSE /\ CanSchedule(translatedText)
          /\ Render(translatedText, targetLang, sourceLang, inputText)
          /\ UNCHANGED <<error, calls, started, lastCall>>
  /\ lastOp' = Op("swap", 0, <<>>, <<>>)
  /\ UNCHANGED now
  /\ UNCHANGED historyVars

\* clearAll; its button is rendered only while inputText is non-empty.
ClearAll ==
  /\ inputText # <<>>
  /\ Render(<<>>, sourceLang, targetLang, <<>>)
  /\ error' = NoError
  /\ lastOp' = Op("clearAll", 0, <<>>, <<>>)
  /\ UNCHANGED <<calls, started, lastCall, now>>
  /\ UNCHANGED historyVars

\* What the stream or the service can throw: name and message of the error.
Errors ==
  { [name |-> "AbortError", message |-> "aborted"],
    [name |-> "Error",      message |-> "boom"],
    [name |-> "Error",      message |-> ""] }

\* Mutant of ErrorMessage: the message is shown as thrown, without fallback.
ErrorMessageAsThrown(err) == err.message

\* err.message || 'Translation failed. Please try again.'
ErrorMessage(err) ==
  IF err.message # "" THEN err.message
  ELSE "Translation failed. Please try again."

\* The timer callback: performTranslation(inputText) of the render that
\* scheduled it, up to the await of translateTextStream.
TimerFires(t) ==
  /\ t \in timers
  /\ t.due <= now
  /\ started < MaxCalls
  /\ timers' = timers \ {t}
  /\ IF Blank(t.text)
     THEN /\ translatedText' = <<>>
          /\ UNCHANGED <<isTranslating, error, calls, started,
                         callsSinceChange, lastCall>>
     ELSE /\ isTranslating' = TRUE
          /\ error' = NoError
          /\ translatedText' = <<>>
          /\ started' = started + 1
          /\ calls' = {[c EXCEPT !.alone = FALSE] : c \in calls} \cup
                {[id |-> started + 1, text |-> t.text, sLang |-> t.sLang,
                  tLang |-> t.tLang, fullText |-> <<>>,
                  chunks |-> <<>>, alone |-> calls = {}]}
          /\ callsSinceChange' = callsSinceChange + 1
          /\ lastCall' = <<t.text, t.sLang, t.tLang>>
  /\ lastOp' = Op("timer", 0, <<>>, <<>>)
  /\ UNCHANGED <<inputText, sourceLang, targetLang, abortControllerRef,
                 nextTimerId, changedAt, now>>
  /\ UNCHANGED historyVars

\* The fragments chunk.text can hold; translateTextStream drops the empty one.
Chunks == {<<>>, <<"a">>}

\* Mutant of Accumulate: the fragment replaces the text received so far.
AccumulateLast(fullText, chunk) == chunk

\* fullText += chunk
Accumulate(fullText, chunk) == fullText \o chunk

\* One iteration of translateTextStream's for-await loop for call c, and the
\* onChunk callback of performTranslation when the fragment is not empty; a
\* call receives at most limit non-empty fragments.
StreamChunkUpTo(c, chunk, limit) ==
  /\ c \in calls
  /\ Len(c.chunks) < limit
  /\ IF chunk # <<>>
     THEN LET fullText == Accumulate(c.fullText, chunk) IN
          /\ calls' = (calls \ {c}) \cup
                {[c EXCEPT !.fullText = fullText,
                           !.chunks = Append(c.chunks, chunk)]}
          /\ translatedText' = fullText
     ELSE UNCHANGED <<calls, translatedText>>
  /\ lastOp' = Op("chunk", c.id, <<>>, <<>>)
  /\ UNCHANGED <<inputText, sourceLang, targetLang, isTranslating, error,
                 abortControllerRef, timers, nextTimerId, started,
                 callsSinceChange, changedAt, lastCall, now>>
  /\ UNCHANGED historyVars

StreamChunk(c, chunk) == StreamChunkUpTo(c, chunk, MaxChunks)

\* The stream of call c ends: saveToHistory, then the finally block.
StreamCompletes(c) ==
  /\ c \in calls
  /\ calls' = calls \ {c}
  /\ SaveToHistory(c.text, c.fullText, c.sLang, c.tLang)
  /\ isTranslating' = FALSE
  /\ lastOp' = Op("complete", c.id, <<>>, <<>>)
  /\ UNCHANGED <<inputText, translatedText, sourceLang, targetLang, error,
                 abortControllerRef, timers, nextTimerId, started,
                 callsSinceChange, changedAt, lastCall, now>>

\* Mutant of StreamFails: a call that failed with an error other than
\* AbortError is issued again.
StreamFailsAndRetries(c, err) ==
  /\ c \in calls
  /\ IF err.name # "AbortError" /\ started < MaxCalls
     THEN /\ calls' = (calls \ {c}) \cup
                {[c EXCEPT !.id = started + 1, !.fullText = <<>>,
                           !.chunks = <<>>]}
          /\ started' = started + 1
          /\ callsSinceChange' = callsSinceChange + 1
          /\ UNCHANGED <<error, isTranslating>>
     ELSE /\ calls' = calls \ {c}
          /\ error' = IF err.name # "AbortError"
                      THEN <<ErrorMessage(err)>> ELSE error
          /\ isTranslating' = FALSE
          /\ UNCHANGED <<started, callsSinceChange>>
  /\ lastOp' = Op(IF err.name = "AbortError" THEN "abort" ELSE "fail",
                  c.id, <<>>, <<>>)
  /\ UNCHANGED <<inputText, translatedText, sourceLang, targetLang,
                 abortControllerRef, timers, nextTimerId, changedAt,
                 lastCall, now>>
  /\ UNCHANGED historyVars

\* Mutant of StreamFails: the finally block is missing.
StreamFailsFlagKept(c, err) ==
  /\ c \in calls
  /\ calls' = calls \ {c}
  /\ error' = IF err.name # "AbortError" THEN <<ErrorMessage(err)>> ELSE error
  /\ lastOp' = Op(IF err.name = "AbortError" THEN "abort" ELSE "fail",
                  c.id, <<>>, <<>>)
  /\ UNCHANGED <<inputText, translatedText, sourceLang, targetLang,
                 isTranslating, abortControllerRef, timers, nextTimerId,
                 started, callsSinceChange, changedAt, lastCall, now>>
  /\ UNCHANGED historyVars

\* translateTextStream of call c rejects with err: the catch block, then the
\* finally block.
StreamFails(c, err) ==
  /\ c \in calls
  /\ calls' = calls \ {c}
  /\ error' = IF err.name # "AbortError" THEN <<ErrorMessage(err)>> ELSE error
  /\ isTranslating' = FALSE
  /\ lastOp' = Op(IF err.name = "AbortError" THEN "abort" ELSE "fail",
                  c.id, <<>>, <<>>)
  /\ UNCHANGED <<inputText, translatedText, sourceLang, targetLang,
                 abortControllerRef, timers, nextTimerId, started,
                 callsSinceChange, changedAt, lastCall, now>>
  /\ UNCHANGED historyVars

\* Mutant of ClearHistory: the stored copy is not removed.
ClearHistoryInMemoryOnly ==
  /\ Len(history) > 0
  /\ history' = <<>>
  /\ lastOp' = Op("clearHistory", 0, <<>>, <<>>)
  /\ UNCHANGED <<localStorage, nextUuid, now>>
  /\ UNCHANGED orchestratorVars

\* Clear History button, rendered only while the list is not empty.
ClearHistory ==
  /\ Len(history) > 0
  /\ history' = <<>>
  /\ localStorage' = NoItem
  /\ lastOp' = Op("clearHistory", 0, <<>>, <<>>)
  /\ UNCHANGED <<nextUuid, now>>
  /\ UNCHANGED orchestratorVars

\* Click on the i-th history card.
HistoryItemClick(i) ==
  /\ i \in 1..Len(history)
  /\ Render(IF history[i].sourceLanguage = sourceLang THEN inputText ELSE <<>>,
            sourceLang, targetLang, translatedText)
  /\ lastOp' = Op("recall", 0, <<>>, <<>>)
  /\ UNCHANGED <<error, calls, started, lastCall, now>>
  /\ UNCHANGED historyVars

\* Time passes, up to the instant a pending timer is due.
Tick(limit) ==
  /\ now + TickStep <= limit
  /\ \A t \in timers : now < t.due
  /\ now' = now + TickStep
  /\ lastOp' = Op("tick", 0, <<>>, <<>>)
  /\ UNCHANGED orchestratorVars
  /\ UNCHANGED historyVars

\* The texts the user types.
Inputs == {<<>>, <<" ">>, <<"a">>}

Next ==
  \/ \E text \in Inputs : SetInputText(text)
  \/ \E code \in Languages : SetSourceLang(code)
  \/ \E code \in TargetLanguages : SetTargetLang(code)
  \/ HandleSwapLanguages
  \/ ClearAll
  \/ \E t \in timers : TimerFires(t)
  \/ \E c \in calls, chunk \in Chunks : StreamChunk(c, chunk)
  \/ \E c \in calls : StreamCompletes(c)
  \/ \E c \in calls, err \in Errors : StreamFails(c, err)
  \/ ClearHistory
  \/ \E i \in 1..HISTORY_LIMIT : HistoryItemClick(i)
  \/ Tick(MaxTime)

Spec == Init /\ [][Next]_vars

\* The stream of call id ends or fails.
Settles(id) ==
  \E c \in calls :
    /\ c.id = id
    /\ (StreamCompletes(c) \/ \E err \in Errors : StreamFails(c, err))

\* Every stream that was opened eventually ends or fails.
LiveSpec == Spec /\ \A id \in 1..MaxCalls : WF_vars(Settles(id))

\* ------------------------------------------------ the history cache alone
\* record(sourceText, translatedText, sourceLang, targetLang)
Record(text, translated, sLang, tLang) ==
  /\ nextUuid <= MaxRecords
  /\ SaveToHistory(text, translated, sLang, tLang)
  /\ lastOp' = Op("record", 0, text, translated)
  /\ UNCHANGED now
  /\ UNCHANGED orchestratorVars

RecordTexts == {<<>>, <<" ">>, <<"a">>}
RecordOutputs == {<<>>, <<" ">>, <<"a">>, <<"b">>, <<"c">>}

HistInit ==
  InitWith({NoItem, Stringify(StoredList(HISTORY_LIMIT - 1)),
            Stringify(StoredList(HISTORY_LIMIT))})

HistNext ==
  \/ \E text \in RecordTexts, translated \in RecordOutputs :
        Record(text, translated, "auto", "es")
  \/ ClearHistory
  \/ Tick(MaxHistTime)

HistSpec == HistInit /\ [][HistNext]_vars

\* --------------------------------------------------------------- startup
\* The cache after a mount that found nothing, an unparsable text, or the
\* JSON of three entries in the store.
LoadInit == InitWith({NoItem, Corrupt, Stringify(StoredList(3))})

LoadSpec == LoadInit /\ [][HistNext]_vars

\* ----------------------------------------------------------- first use
\* The cache after a mount that found nothing in the store.
FreshInit == InitWith({NoItem})

FreshSpec == FreshInit /\ [][HistNext]_vars

\* ------------------------------------------------------ one long stream
\* The App with calls that do not overlap and streams of several fragments.
StreamNext ==
  \/ \E text \in Inputs : SetInputText(text)
  \/ \E code \in Languages : SetSourceLang(code)
  \/ HandleSwapLanguages
  \/ ClearAll
  \/ \E t \in timers : started < MaxStreamCalls /\ TimerFires(t)
  \/ \E c \in calls, chunk \in Chunks :
        StreamChunkUpTo(c, chunk, MaxStreamChunks)
  \/ \E c \in calls : StreamCompletes(c)
  \/ \E c \in calls, err \in Errors : StreamFails(c, err)
  \/ Tick(MaxTime)

StreamSpec == Init /\ [][StreamNext]_vars

\* ================================================================ claims

\* A text that is empty or consists of whitespace only.
WhitespaceOnly(s) == \A i \in 1..Len(s) : s[i] \in Whitespace

\* C1: a chunk delivered by a call after a later call has started never
\* changes the displayed output.
C1_StaleChunkNeverShown ==
  [][(lastOp'.op = "chunk" /\ lastOp'.id < started)
       => translatedText' = translatedText]_vars

\* C2: a burst of edits followed by a full quiet period starts exactly one
\* translation call: none while the timer is pending, one once it has fired,
\* never a second one before the next change; the call starts no earlier than
\* a quiet period after the last change and is issued with the input text and
\* the language pair current at that moment.
C2_DebounceStartsOneCall ==
  /\ [](/\ callsSinceChange <= 1
        /\ (timers # {} => callsSinceChange = 0)
        /\ ((~WhitespaceOnly(inputText) /\ timers = {}) => callsSinceChange = 1)
        /\ (callsSinceChange = 1
              => lastCall = <<inputText, sourceLang, targetLang>>))
  /\ [][started' # started
          => /\ started' = started + 1
             /\ now >= changedAt + DEBOUNCE_MS
             /\ lastCall' = <<inputText, sourceLang, targetLang>>
             /\ \E c \in calls' :
                  /\ c.id = started'
                  /\ <<c.text, c.sLang, c.tLang>> = lastCall']_vars

\* A call started after two edits less than a quiet period apart.
C2_Witness ==
  /\ lastOp.op = "timer"
  /\ callsSinceChange = 1
  /\ nextTimerId = 3
  /\ started = 1
  /\ changedAt = TickStep

\* C3: once the input has been changed to a blank text, the translation that
\* was scheduled for the earlier input is cancelled and no call is started
\* for it: a pending timer always belongs to the current, non-blank input,
\* and the step that makes the input blank leaves no timer and starts no call.
C3_BlankInputCancelsTimer ==
  /\ [](\A t \in timers : t.text = inputText /\ ~WhitespaceOnly(t.text))
  /\ [][WhitespaceOnly(inputText')
          => timers' = {} /\ started' = started]_vars

\* The input was cleared while a translation was scheduled.
C3_Witness ==
  /\ lastOp.op \in {"clearAll", "setInputText"}
  /\ lastOp.pending = 1
  /\ WhitespaceOnly(inputText)
  /\ timers = {}

\* ---------------------------------------------------- settling and swap
\* C8 as stated: after a call fails with an AbortError the error state is
\* null; after it fails with another error the error state is a non-empty
\* message; either way the in-flight flag is false and nothing is recorded.
C8_FailureAsStated ==
  [][/\ lastOp'.op = "abort" => error' = NoError
     /\ lastOp'.op = "fail" => Len(error') = 1 /\ error'[1] # ""
     /\ lastOp'.op \in {"abort", "fail"}
          => /\ isTranslating' = FALSE
             /\ history' = history
             /\ localStorage' = localStorage]_vars

\* C8 amended: a call that fails with an AbortError leaves the error state
\* as it was; the rest as stated.
C8_Failure ==
  [][/\ lastOp'.op = "abort" => error' = error
     /\ lastOp'.op = "fail" => Len(error') = 1 /\ error'[1] # ""
     /\ lastOp'.op \in {"abort", "fail"}
          => /\ isTranslating' = FALSE
             /\ history' = history
             /\ localStorage' = localStorage]_vars

\* A call has failed with an AbortError after an overlapping call had put a
\* message in the error state.
C8_Witness ==
  /\ lastOp.op = "abort"
  /\ error # NoError
  /\ isTranslating = FALSE

\* C9: with source language "auto" the swap changes nothing: not the
\* languages, not the texts, not the pending timer.
C9_SwapIsNoOpOnAuto ==
  [][(lastOp'.op = "swap" /\ sourceLang = "auto")
       => UNCHANGED <<sourceLang, targetLang, inputText, translatedText,
                      timers, abortControllerRef, nextTimerId, calls,
                      started, isTranslating, error>>]_vars

\* The swap handler ran on "auto" with an output shown and a translation
\* scheduled.
C9_Witness ==
  /\ lastOp.op = "swap"
  /\ sourceLang = "auto"
  /\ translatedText # <<>>
  /\ timers # {}

\* C10: with a source language other than "auto", after the swap and the
\* effect it triggers the languages are exchanged and so are the texts.
C10_SwapExchanges ==
  [][(lastOp'.op = "swap" /\ sourceLang # "auto")
       => /\ sourceLang' = targetLang
          /\ targetLang' = sourceLang
          /\ inputText' = translatedText
          /\ translatedText' = inputText]_vars

\* ------------------------------------------------------ history claims
\* Entries nearer the head were created later.
MostRecentFirst(h) ==
  \A i, j \in 1..Len(h) :
    i < j => h[i].id > h[j].id /\ h[i].timestamp >= h[j].timestamp

\* Number of entries of h whose translatedText is text.
Occurrences(h, text) ==
  Cardinality({i \in 1..Len(h) : h[i].translatedText = text})

\* The step is a record of a translation with non-blank source and output.
RecordsTranslation ==
  lastOp'.op = "record" /\ ~WhitespaceOnly(lastOp'.text) /\ ~WhitespaceOnly(lastOp'.out)

\* C4: the history never holds more than 10 entries and is ordered most
\* recent first; a record that changes the list puts the new entry in front
\* of the previous entries in their order, and on a full list drops the last
\* (oldest) one.
C4_BoundedMostRecentFirst ==
  /\ [](Len(history) <= HISTORY_LIMIT /\ MostRecentFirst(history))
  /\ [][(lastOp'.op = "record" /\ history' # history)
          => /\ Len(history') =
                  (IF Len(history) < HISTORY_LIMIT
                   THEN Len(history) + 1 ELSE HISTORY_LIMIT)
             /\ \A i \in 2..Len(history') : history'[i] = history[i - 1]
             /\ \A i \in 1..Len(history) : history'[1].id > history[i].id]_vars

\* Two records on a stored list of 10 have dropped its two oldest entries.
C4_Witness ==
  /\ lastOp.op = "record"
  /\ Len(history) = HISTORY_LIMIT
  /\ history[HISTORY_LIMIT].id = 2 - HISTORY_LIMIT
  /\ history[1].id = 2

\* C5: in a list built by record operations alone, no two adjacent entries
\* have the same translatedText.
C5_NoAdjacentDuplicates ==
  (\A i \in 1..Len(history) : history[i].id > 0)
    => \A i \in 1..(Len(history) - 1) :
         history[i].translatedText # history[i + 1].translatedText

\* A recorded list in which only the head was compared: entries 1 and 3 agree.
C5_Witness ==
  /\ Len(history) >= 3
  /\ \A i \in 1..Len(history) : history[i].id > 0
  /\ history[1].translatedText = history[3].translatedText

\* C6 as stated: a record whose output equals the head's leaves the list
\* unchanged; one whose output equals a non-head entry's but not the head's
\* prepends an entry, and the list then holds two entries with that text.
C6_WeakDedupAsStated ==
  [][(RecordsTranslation /\ Len(history) > 0)
       => IF history[1].translatedText = lastOp'.out
          THEN history' = history
          ELSE (\E i \in 2..Len(history) :
                   history[i].translatedText = lastOp'.out)
                 => /\ history'[1].translatedText = lastOp'.out
                    /\ history'[1].id > history[1].id
                    /\ Occurrences(history', lastOp'.out) >= 2]_vars

\* C6 amended: as stated, except that the list holds two entries with that
\* text only when an entry with it survives the truncation, that is when it
\* is not only the last entry of a full list that has it.
C6_WeakDedup ==
  [][(RecordsTranslation /\ Len(history) > 0)
       => IF history[1].translatedText = lastOp'.out
          THEN history' = history
          ELSE (\E i \in 2..Len(history) :
                   history[i].translatedText = lastOp'.out)
                 => /\ history'[1].translatedText = lastOp'.out
                    /\ history'[1].id > history[1].id
                    /\ Occurrences(history', lastOp'.out) =
                         1 + Cardinality({i \in 1..Len(history) :
                               /\ i < HISTORY_LIMIT
                               /\ history[i].translatedText = lastOp'.out})
                    /\ (\E i \in 2..Len(history) :
                          /\ i < HISTORY_LIMIT
                          /\ history[i].translatedText = lastOp'.out)
                         => Occurrences(history', lastOp'.out) >= 2]_vars

\* A record has put a second entry with the text of a non-head entry in
\* front.
C6_Witness ==
  /\ lastOp.op = "record"
  /\ Len(history) >= 3
  /\ history[1].translatedText = lastOp.out
  /\ history[3].translatedText = lastOp.out
  /\ history[1].id = nextUuid - 1

\* C7: a record whose source text or output is blank changes neither the
\* list nor the stored copy.
C7_BlankRecordIsSkipped ==
  [][(lastOp'.op = "record" /\ (WhitespaceOnly(lastOp'.text) \/ WhitespaceOnly(lastOp'.out)))
       => history' = history /\ localStorage' = localStorage]_vars

\* A whitespace-only output was offered to a non-empty list whose head holds
\* another text.
C7_Witness ==
  /\ lastOp.op = "record"
  /\ lastOp.out = <<" ">>
  /\ ~WhitespaceOnly(lastOp.text)
  /\ Len(history) > 0
  /\ localStorage.present

\* --------------------------------------------------- streaming claims
\* c1 + ... + cn
RECURSIVE Concat(_)
Concat(texts) ==
  IF texts = <<>> THEN <<>> ELSE Head(texts) \o Concat(Tail(texts))

\* The step delivers a non-empty fragment to call c, which no other call has
\* overlapped so far.
DeliversTo(c) ==
  /\ lastOp'.op = "chunk"
  /\ c.id = lastOp'.id
  /\ c.alone
  /\ \E d \in calls' : d.id = c.id /\ Len(d.chunks) = Len(c.chunks) + 1

\* The output after the fragment is the concatenation of the fragments call
\* c has received.
ShowsRunningTotal(c) ==
  \E d \in calls' : d.id = c.id /\ translatedText' = Concat(d.chunks)

\* The step is the normal completion of call c, which no other call has
\* overlapped.
CompletesAlone(c) ==
  lastOp'.op = "complete" /\ c.id = lastOp'.id /\ c.alone

\* The completion of call c prepends one entry with the concatenated text
\* and the call's language pair when that text is not blank and differs from
\* the head's, and leaves the history alone otherwise.
RecordsResult(c) ==
  LET full == Concat(c.chunks) IN
  IF /\ ~WhitespaceOnly(full)
     /\ (Len(history) > 0 => history[1].translatedText # full)
  THEN /\ Len(history') = (IF Len(history) < HISTORY_LIMIT
                           THEN Len(history) + 1 ELSE HISTORY_LIMIT)
       /\ history'[1].translatedText = full
       /\ history'[1].sourceLanguage = c.sLang
       /\ history'[1].targetLanguage = c.tLang
       /\ \A i \in 2..Len(history') : history'[i] = history[i - 1]
  ELSE history' = history

\* C11 as stated: for a call that no other call overlaps, the output after
\* the k-th fragment is c1 + ... + ck, the output at completion is
\* c1 + ... + cn, and the completion records that text once with the call's
\* language pair.
C11_StreamAsStated ==
  [][\A c \in calls :
       /\ DeliversTo(c) => ShowsRunningTotal(c)
       /\ CompletesAlone(c)
            => translatedText' = Concat(c.chunks) /\ RecordsResult(c)]_vars

\* C11 amended: the output at completion is c1 + ... + cn when, in addition,
\* neither the input text nor a language has changed since the call started;
\* the rest as stated.
C11_Stream ==
  [][\A c \in calls :
       /\ DeliversTo(c) => ShowsRunningTotal(c)
       /\ CompletesAlone(c) => RecordsResult(c)
       /\ (CompletesAlone(c) /\ c.id = started /\ callsSinceChange = 1)
            => translatedText' = Concat(c.chunks)]_vars

\* A call that received two fragments has completed and its text heads the
\* history with the pair it was issued with.
C11_Witness ==
  /\ lastOp.op = "complete"
  /\ callsSinceChange = 1
  /\ Len(translatedText) = 2
  /\ Len(history) = 2
  /\ history[1].translatedText = translatedText
  /\ <<history[1].sourceLanguage, history[1].targetLanguage>> =
       <<lastCall[2], lastCall[3]>>

\* C12: after the mount, the history holds exactly the entries of a stored
\* list, in the stored order; with nothing stored or an unparsable text it is
\* empty and no error is set.
C12_LoadReproducesStore ==
  lastOp.op = "init"
    => IF localStorage.present /\ localStorage.wellFormed
       THEN /\ Len(history) = Len(localStorage.rows)
            /\ \A i \in 1..Len(history) :
                 <<history[i].id, history[i].timestamp,
                   history[i].sourceLanguage, history[i].targetLanguage,
                   history[i].translatedText>> = localStorage.rows[i]
            /\ error = NoError
       ELSE history = <<>> /\ error = NoError

\* The mount has loaded the three stored entries.
C12_Witness ==
  /\ lastOp.op = "init"
  /\ Len(history) = 3
  /\ history[1].id # history[3].id

\* C13: the clear operation leaves the history empty and the stored copy
\* absent, and changes neither the texts, the languages, the error, the
\* in-flight flag, the pending timer nor the calls in flight.
C13_ClearHistoryFrame ==
  [][lastOp'.op = "clearHistory"
       => /\ history' = <<>>
          /\ ~localStorage'.present
          /\ UNCHANGED <<inputText, translatedText, sourceLang, targetLang,
                         error, isTranslating, timers, abortControllerRef,
                         nextTimerId, calls, started>>]_vars

\* The history was cleared while a translation was streaming, its text was
\* shown and another translation was scheduled.
C13_Witness ==
  /\ lastOp.op = "clearHistory"
  /\ history = <<>>
  /\ isTranslating
  /\ translatedText # <<>>
  /\ timers # {}

\* ------------------------------------------------- overlapping requests
\* C14: while a later-started call is still in flight, the settling of an
\* earlier-started call changes neither the in-flight flag nor the error.
C14_EarlierSettlingIsSilent ==
  [][(/\ lastOp'.op \in {"complete", "abort", "fail"}
      /\ \E c \in calls' : c.id > lastOp'.id)
       => /\ isTranslating' = isTranslating
          /\ error' = error]_vars

\* ------------------------------------------------------ the debounce timer
\* C15: at most one debounce timer is pending, and it is the one scheduled
\* last: every change of the input or of a language cancels the timer that
\* was pending before it.
C15_AtMostOneTimer ==
  /\ Cardinality(timers) <= 1
  /\ \A t \in timers : t.id = nextTimerId - 1 /\ t.id = abortControllerRef

\* A second timer was scheduled while the first was pending.
C15_Witness ==
  /\ lastOp.op \in {"setInputText", "setSourceLang", "setTargetLang", "swap"}
  /\ lastOp.pending = 1
  /\ Cardinality(timers) = 1
  /\ nextTimerId = 3

\* C16: a change of the source or target language while the input is not
\* blank leaves exactly one timer, scheduled by that change for the current
\* input and the new pair, due DEBOUNCE_MS after the change, and the call it
\* starts carries that pair; with a blank input it leaves no timer.
C16_LanguageChangeReschedules ==
  /\ [][lastOp'.op \in {"setSourceLang", "setTargetLang"}
          => IF WhitespaceOnly(inputText')
             THEN timers' = {}
             ELSE \E t \in timers' :
                    /\ timers' = {t}
                    /\ t \notin timers
                    /\ t.text = inputText'
                    /\ t.sLang = sourceLang'
                    /\ t.tLang = targetLang'
                    /\ t.due = now' + DEBOUNCE_MS]_vars
  /\ [][started' # started
          => \E c \in calls' :
               /\ c.id = started'
               /\ c.sLang = sourceLang'
               /\ c.tLang = targetLang'
               /\ now' >= changedAt' + DEBOUNCE_MS]_vars

\* The source language was changed while a translation of a non-blank input
\* was scheduled.
C16_Witness ==
  /\ lastOp.op = "setSourceLang"
  /\ lastOp.pending = 1
  /\ ~WhitespaceOnly(inputText)
  /\ \E t \in timers : t.sLang = sourceLang /\ t.due = now + DEBOUNCE_MS

\* ----------------------------------------------------- the in-flight flag
InFlight(id) == \E c \in calls : c.id = id

\* C17: the step that starts a call sets the in-flight flag; a call whose
\* stream ends or fails settles; and the step that settles it, by completion,
\* by an AbortError or by another error, clears the flag.
C17_FlagFollowsCall ==
  /\ [][started' # started => isTranslating']_vars
  /\ [][lastOp'.op \in {"complete", "abort", "fail"}
          => /\ ~isTranslating'
             /\ \A c \in calls' : c.id # lastOp'.id]_vars
  /\ \A id \in 1..MaxCalls : InFlight(id) ~> ~InFlight(id)

\* The second call failed with an error other than AbortError.
C17_Witness ==
  /\ lastOp.op = "fail"
  /\ lastOp.id = 2
  /\ ~isTranslating
  /\ ~InFlight(2)

\* ------------------------------------------------------------ blank input
\* C18: right after the input is changed to a text that is blank once
\* trimmed, the output is empty, the in-flight flag is false and no timer is
\* pending, whatever they were before.
C18_BlankInputClears ==
  [][(inputText' # inputText /\ WhitespaceOnly(inputText'))
       => /\ translatedText' = <<>>
          /\ ~isTranslating'
          /\ timers' = {}]_vars

\* The input was changed to a blank text while a call that had delivered text
\* was in flight and another translation was scheduled.
C18_Witness ==
  /\ lastOp.op = "setInputText"
  /\ lastOp.pending = 1
  /\ WhitespaceOnly(inputText)
  /\ inputText # <<>>
  /\ \E c \in calls : c.fullText # <<>>
  /\ translatedText = <<>>
  /\ ~isTranslating

\* C20: while the input stays blank the output stays empty, whatever chunk or
\* completion of an earlier call arrives.
C20_BlankInputKeepsOutputEmpty ==
  [][(/\ WhitespaceOnly(inputText)
      /\ translatedText = <<>>
      /\ WhitespaceOnly(inputText'))
       => translatedText' = <<>>]_vars

\* ---------------------------------------------------------------- no retry
\* C19 as stated: once a call has failed, no call starts until the input or a
\* language changes again; in particular the step after a failure starts none.
C19_NoRetryAsStated ==
  [][lastOp.op \in {"abort", "fail"} => started' = started]_vars

\* C19: calls are started by the debounce timer only, one per change of the
\* input or of a language made since the previous call started, so a failed
\* call is never issued again and there are no more calls than changes
\* (nextTimerId - 1 counts the changes that scheduled a translation).
C19_NoRetry ==
  /\ [](started <= nextTimerId - 1 /\ callsSinceChange <= 1)
  /\ [][started' # started
          => /\ lastOp'.op = "timer"
             /\ callsSinceChange = 0
             /\ started' = started + 1]_vars
  /\ [][lastOp'.op \in {"abort", "fail"}
          => /\ started' = started
             /\ timers' = timers
             /\ \A c \in calls' : c \in calls]_vars

\* A call failed and nothing was started or scheduled in its place.
C19_Witness ==
  /\ lastOp.op = "fail"
  /\ started = 1
  /\ calls = {}
  /\ timers = {}
  /\ error # NoError

\* ------------------------------------------------------- the stored copy
\* C21: starting with nothing stored and an empty list, after any records and
\* clears the stored copy is absent exactly when the list is empty (nothing
\* recorded since startup or since the last clear), and otherwise it is the
\* JSON of the current list, entry by entry in the same order.
C21_StoreMatchesHistory ==
  /\ lastOp.op \in {"init", "clearHistory"} => history = <<>>
  /\ IF history = <<>>
     THEN ~localStorage.present
     ELSE /\ localStorage.present
          /\ localStorage.wellFormed
          /\ Len(localStorage.rows) = Len(history)
          /\ \A i \in 1..Len(history) :
               /\ localStorage.rows[i][1] = history[i].id
               /\ localStorage.rows[i][2] = history[i].timestamp
               /\ localStorage.rows[i][3] = history[i].sourceLanguage
               /\ localStorage.rows[i][4] = history[i].targetLanguage
               /\ localStorage.rows[i][5] = history[i].translatedText

\* Two entries recorded after a clear that followed a first record.
C21_Witness ==
  /\ lastOp.op = "record"
  /\ Len(history) = 2
  /\ nextUuid = 4
  /\ history[1].translatedText # history[2].translatedText
  /\ localStorage.present

====
